---- MODULE Spec2Model ----
(***************************************************************************)
(* Gee-nomics: the Genome class (Genome.cpp), the Trie template and the    *)
(* GenomeMatcher (GenomeMatcher.cpp).                                      *)
(*                                                                         *)
(* A std::string is a sequence of one-character strings, so "ACG" is       *)
(* <<"A","C","G">>.  C++ offsets are 0-based, TLA+ sequences 1-based: the  *)
(* operator substr does the shift.  A std::vector is a sequence.  The      *)
(* caller's vector<DNAMatch> is filled from an unordered_map, whose        *)
(* iteration order is unspecified: it is kept as a bag.                    *)
(***************************************************************************)
EXTENDS Integers, Sequences, FiniteSets, Bags, TLC

VARIABLES
    m_minSearchLength,  \* GenomeMatcherImpl::m_minSearchLength
    m_genomeLibrary,    \* GenomeMatcherImpl::m_genomeLibrary, vector<Genome>
    m_sequencedDNA,     \* GenomeMatcherImpl::m_sequencedDNA, Trie<pair<int,int>>
    matches,            \* the caller's vector<DNAMatch>& (a bag)
    results,            \* the caller's vector<GenomeMatch>&
    match,              \* findGenomesWithThisDNA's local unordered_map<int, DNAMatch>
    call,               \* the last operation called, with its arguments
    ret,                \* what the last operation returned
    m_root,             \* a Trie<int> used on its own: its nodes
    inserted,           \* the (key, value) pairs inserted into m_root so far, a bag
    genome,             \* a Genome used on its own: [m_name, m_sequence]
    constructed,        \* the arguments its constructor was given
    fragment            \* the caller's string& handed to Genome::extract

vars == <<m_minSearchLength, m_genomeLibrary, m_sequencedDNA, matches, results,
          match, call, ret, m_root, inserted, genome, constructed, fragment>>

matcherVars == <<m_minSearchLength, m_genomeLibrary, m_sequencedDNA, matches,
                 results, match>>
trieVars == <<m_root, inserted>>
genomeVars == <<genome, constructed, fragment>>

----------------------------------------------------------------------------
(* Bounds of the model.                                                    *)

MaxGenomes == 2     \* genomes added to one matcher
MaxSeqLen == 3      \* length of a library or query genome's sequence
MaxFragLen == 3     \* length of a fragment handed to findGenomesWithThisDNA
MaxQueryLen == 2    \* length of a query genome handed to findRelatedGenomes
MaxK == 2           \* minimum search length given to the constructor
MaxKeyLen == 3      \* length of a key inserted into the stand-alone trie
MaxInserts == 2     \* insert calls on the stand-alone trie
MaxGenomeLen == 2   \* length of the sequence of the stand-alone Genome

Bases == {"A", "C"}                 \* the bases used in the matcher
GenomeChars == {"A", "C", "a", "c"} \* characters handed to the Genome constructor
Names == {<<"X">>, <<"Y">>}         \* genome names
Thresholds == {0, 50}               \* matchPercentThreshold
NoCall == [op |-> "none"]

\* what a caller's vector may hold when it is handed to a query: nothing, or
\* what an earlier query left in it
StaleMatches ==
    {EmptyBag, SetToBag({[genomeName |-> <<"X">>, length |-> 1, position |-> 0]})}
StaleResults ==
    {<< >>, <<[genomeName |-> <<"X">>, percentMatch |-> [num |-> 100, den |-> 1]]>>}

\* the byte value of a character (ASCII)
Ord(c) ==
    CASE c = "A" -> 65 [] c = "C" -> 67 [] c = "G" -> 71 [] c = "N" -> 78
      [] c = "T" -> 84 [] c = "X" -> 88 [] c = "Y" -> 89
      [] c = "a" -> 97 [] c = "c" -> 99 [] c = "e" -> 101 [] c = "o" -> 111
      [] c = "r" -> 114

\* the characters that occur in any key, in byte order: the order in which
\* findHelper's loop over the 256 child slots meets the non-null children
CharOrder == <<"A", "C", "a", "c">>

\* all strings over S of length lo..hi
Strings(S, lo, hi) == UNION {[1..n -> S] : n \in lo..hi}

----------------------------------------------------------------------------
(* std::string                                                             *)

Min(a, b) == IF a < b THEN a ELSE b

\* s.substr(pos, n) for 0 <= pos <= s.size(); n is a size_t, so a negative
\* int converts to a huge count and the result runs to the end of s
substr(s, pos, n) ==
    LET cnt == IF n < 0 THEN Len(s) - pos ELSE Min(n, Len(s) - pos)
    IN  SubSeq(s, pos + 1, pos + cnt)

\* a < b on std::string: lexicographic by byte value
RECURSIVE StringLess(_, _)
StringLess(a, b) ==
    IF Len(b) = 0 THEN FALSE
    ELSE IF Len(a) = 0 THEN TRUE
    ELSE IF Ord(a[1]) < Ord(b[1]) THEN TRUE
    ELSE IF Ord(a[1]) > Ord(b[1]) THEN FALSE
    ELSE StringLess(Tail(a), Tail(b))

\* the sentinel "error" the matcher puts in a string before calling extract
ERROR == <<"e", "r", "r", "o", "r">>

----------------------------------------------------------------------------
(* Genome.cpp                                                              *)

\* the constructor with the sequence upper-cased, as Genome::load does
toupper(c) == CASE c = "a" -> "A" [] c = "c" -> "C" [] OTHER -> c
GenomeImplUpper(nm, sequence) ==
    [m_name |-> nm, m_sequence |-> [i \in 1..Len(sequence) |-> toupper(sequence[i])]]

\* GenomeImpl::GenomeImpl: both members are copied from the arguments
GenomeImpl(nm, sequence) == [m_name |-> nm, m_sequence |-> sequence]

length(g) == Len(g.m_sequence)
name(g) == g.m_name

\* extract with position == m_sequence.length() let through
extractNoEndTest(g, position, len, frag) ==
    IF position < 0 \/ position > Len(g.m_sequence)
    THEN [ok |-> FALSE, fragment |-> frag]
    ELSE IF position + len < 0 \/ position + len > Len(g.m_sequence)
    THEN [ok |-> FALSE, fragment |-> frag]
    ELSE [ok |-> TRUE, fragment |-> substr(g.m_sequence, position, len)]

\* GenomeImpl::extract(position, length, fragment): the returned bool and the
\* caller's string afterwards.  position + length is an int compared with a
\* size_t: a negative sum converts to a huge value and is "over-reaching".
extract(g, position, len, frag) ==
    IF position < 0 \/ position >= Len(g.m_sequence)
    THEN [ok |-> FALSE, fragment |-> frag]
    ELSE IF position + len < 0 \/ position + len > Len(g.m_sequence)
    THEN [ok |-> FALSE, fragment |-> frag]
    ELSE [ok |-> TRUE, fragment |-> substr(g.m_sequence, position, len)]

----------------------------------------------------------------------------
(* Trie<ValueType>.  A node is named by the path of characters that leads  *)
(* to it from the root (each node has exactly one).  The trie is a         *)
(* function from the paths of its nodes to their m_values vectors; a path  *)
(* outside its domain is a nullptr child.                                  *)

\* Trie::Trie: one empty root node
Trie == (<< >> :> << >>)

\* Trie::reset: free every node, then one new empty root node
reset(t) == (<< >> :> << >>)

\* Trie::insert(key, value): walk the key from the root, create the missing
\* nodes, push the value at the node of the key
insert(t, key, value) ==
    LET path == {SubSeq(key, 1, i) : i \in 0..Len(key)}
        old(p) == IF p \in DOMAIN t THEN t[p] ELSE << >>
    IN  [p \in DOMAIN t \cup path |->
            IF p = key THEN Append(old(p), value) ELSE old(p)]

\* Trie::findHelper(key, exactMatchOnly, t, v): what the call appends to v.
\* node is the path of the node pointer t.
RECURSIVE findHelper(_, _, _, _)
RECURSIVE findOthers(_, _, _, _)
findHelper(t, key, exactMatchOnly, node) ==
    IF node \notin DOMAIN t THEN << >>
    ELSE IF Len(key) = 0 THEN t[node]
    ELSE IF exactMatchOnly
    THEN findHelper(t, Tail(key), TRUE, Append(node, key[1]))
    ELSE findHelper(t, Tail(key), FALSE, Append(node, key[1]))
         \o findOthers(t, key, node, 1)

\* the loop over the other children, from slot i of CharOrder on
findOthers(t, key, node, i) ==
    IF i > Len(CharOrder) THEN << >>
    ELSE (IF CharOrder[i] # key[1]
          THEN findHelper(t, Tail(key), TRUE, Append(node, CharOrder[i]))
          ELSE << >>)
         \o findOthers(t, key, node, i + 1)

\* find without the exact test of the first character
findFromRoot(t, key, exactMatchOnly) ==
    IF Len(key) = 0 THEN t[<< >>]
    ELSE findHelper(t, key, exactMatchOnly, << >>)

\* Trie::find(key, exactMatchOnly)
find(t, key, exactMatchOnly) ==
    IF Len(key) = 0 THEN t[<< >>]
    ELSE IF <<key[1]>> \notin DOMAIN t THEN << >>
    ELSE findHelper(t, Tail(key), exactMatchOnly, <<key[1]>>)

----------------------------------------------------------------------------
(* GenomeMatcher.cpp                                                       *)

\* the loop of addGenome from offset i on: extract the k bases at i into a
\* string preset to "error", stop when it still reads "error", else insert
\* the pair (genome number, i) under those bases
RECURSIVE addGenomeLoop(_, _, _, _, _)
addGenomeLoop(t, g, k, id, i) ==
    LET substring == extract(g, i, k, ERROR).fragment
    IN  IF substring = ERROR THEN t
        ELSE addGenomeLoop(insert(t, substring, <<id, i>>), g, k, id, i + 1)

\* addGenome with the loop started at offset 1
addGenomeFromOne(lib, t, k, g) ==
    LET library == Append(lib, g)
    IN  [library |-> library,
         trie |-> addGenomeLoop(t, g, k, Len(library), 1)]

\* GenomeMatcherImpl::addGenome: the library and the trie afterwards.
\* Genomes are numbered 1, 2, 3, ... (the library's size after the push_back)
addGenome(lib, t, k, g) ==
    LET library == Append(lib, g)
    IN  [library |-> library,
         trie |-> addGenomeLoop(t, g, k, Len(library), 0)]

\* the extension loop with the mismatch allowance never used up
RECURSIVE extendUnspent(_, _, _, _, _)
extendUnspent(g, currentPosition, frag, actualLength, snipped) ==
    IF actualLength > Len(frag) THEN actualLength
    ELSE
        LET substring == extract(g, currentPosition, actualLength, ERROR).fragment
        IN  IF substring = ERROR THEN actualLength
            ELSE IF substring = substr(frag, 0, actualLength)
            THEN IF actualLength = Len(frag) THEN actualLength
                 ELSE extendUnspent(g, currentPosition, frag, actualLength + 1, snipped)
            ELSE IF ~snipped
            THEN IF Len(substring) = Len(frag) THEN actualLength
                 ELSE extendUnspent(g, currentPosition, frag, actualLength + 1, FALSE)
            ELSE IF substring[actualLength] # frag[actualLength]
            THEN actualLength - 1
            ELSE IF Len(substring) = Len(frag) THEN actualLength
                 ELSE extendUnspent(g, currentPosition, frag, actualLength + 1, snipped)

\* the extension loop of findGenomesWithThisDNA, entered with actualLength
\* and snipped: the value of actualLength when the loop is left
RECURSIVE extend(_, _, _, _, _)
extend(g, currentPosition, frag, actualLength, snipped) ==
    IF actualLength > Len(frag) THEN actualLength
    ELSE
        LET substring == extract(g, currentPosition, actualLength, ERROR).fragment
        IN  IF substring = ERROR THEN actualLength
            ELSE IF substring = substr(frag, 0, actualLength)
            THEN IF actualLength = Len(frag) THEN actualLength
                 ELSE extend(g, currentPosition, frag, actualLength + 1, snipped)
            ELSE IF ~snipped
            THEN IF Len(substring) = Len(frag) THEN actualLength
                 ELSE extend(g, currentPosition, frag, actualLength + 1, TRUE)
            ELSE IF substring[actualLength] # frag[actualLength]
            THEN actualLength - 1
            ELSE IF Len(substring) = Len(frag) THEN actualLength
                 ELSE extend(g, currentPosition, frag, actualLength + 1, snipped)

\* the loop over matchLocations with one map entry for the whole library
RECURSIVE matchLoopOneBest(_, _, _, _, _, _, _, _)
matchLoopOneBest(lib, k, frag, minimumLength, exactMatchOnly, matchLocations, i, m) ==
    IF i > Len(matchLocations) THEN m
    ELSE
        LET currentGenome == matchLocations[i][1]
            currentPosition == matchLocations[i][2]
            actualLength == extend(lib[currentGenome], currentPosition, frag,
                                   k, exactMatchOnly)
            d == [genomeName |-> name(lib[currentGenome]),
                  length |-> actualLength,
                  position |-> currentPosition]
            next == IF actualLength < minimumLength THEN m
                    ELSE IF 1 \in DOMAIN m
                    THEN IF m[1].length < d.length
                         THEN [m EXCEPT ![1] = d]
                         ELSE m
                    ELSE (1 :> d) @@ m
        IN  matchLoopOneBest(lib, k, frag, minimumLength, exactMatchOnly,
                             matchLocations, i + 1, next)

\* the loop over matchLocations from index i on, with the map m built so far:
\* extend each seed, drop it when shorter than minimumLength, and keep for
\* each genome number the first DNAMatch of the greatest length
RECURSIVE matchLoop(_, _, _, _, _, _, _, _)
matchLoop(lib, k, frag, minimumLength, exactMatchOnly, matchLocations, i, m) ==
    IF i > Len(matchLocations) THEN m
    ELSE
        LET currentGenome == matchLocations[i][1]
            currentPosition == matchLocations[i][2]
            actualLength == extend(lib[currentGenome], currentPosition, frag,
                                   k, exactMatchOnly)
            d == [genomeName |-> name(lib[currentGenome]),
                  length |-> actualLength,
                  position |-> currentPosition]
            next == IF actualLength < minimumLength THEN m
                    ELSE IF currentGenome \in DOMAIN m
                    THEN IF m[currentGenome].length < d.length
                         THEN [m EXCEPT ![currentGenome] = d]
                         ELSE m
                    ELSE (currentGenome :> d) @@ m
        IN  matchLoop(lib, k, frag, minimumLength, exactMatchOnly,
                      matchLocations, i + 1, next)

\* the DNAMatches of the map, pushed to the vector in the map's iteration order
mapValues(m) ==
    [d \in {m[id] : id \in DOMAIN m} |->
        Cardinality({id \in DOMAIN m : m[id] = d})]

\* GenomeMatcherImpl::findGenomesWithThisDNA: the returned bool, the caller's
\* vector afterwards and the local map when the function returns.
\* fragment.size() < minimumLength compares a size_t with an int.
findGenomesWithThisDNA(lib, t, k, frag, minimumLength, exactMatchOnly, matchesIn) ==
    IF minimumLength < 0 \/ Len(frag) < minimumLength
    THEN [ret |-> FALSE, matches |-> matchesIn, match |-> << >>]
    ELSE IF minimumLength < k
    THEN [ret |-> FALSE, matches |-> matchesIn, match |-> << >>]
    ELSE
        LET fragSearchKey == substr(frag, 0, k)
            matchLocations == find(t, fragSearchKey, exactMatchOnly)
        IN  IF Len(matchLocations) = 0
            THEN [ret |-> FALSE, matches |-> EmptyBag, match |-> << >>]
            ELSE
                LET m == matchLoop(lib, k, frag, minimumLength, exactMatchOnly,
                                   matchLocations, 1, << >>)
                IN  [ret |-> DOMAIN m # {}, matches |-> mapValues(m), match |-> m]

\* genomeMatchCompare(a, b).  A percentMatch is the double
\* (count / numSequences) * 100, kept as the fraction num / den.
genomeMatchCompare(a, b) ==
    IF a.percentMatch.num * b.percentMatch.den > b.percentMatch.num * a.percentMatch.den
    THEN TRUE
    ELSE IF a.percentMatch.num * b.percentMatch.den < b.percentMatch.num * a.percentMatch.den
    THEN FALSE
    ELSE StringLess(a.genomeName, b.genomeName)

\* the loop over the query's sequences from index i on, with the map
\* genomeMatches built so far (a name that is no key counts 0)
RECURSIVE sequenceLoop(_, _, _, _, _, _, _, _, _)
sequenceLoop(lib, t, k, query, fragmentMatchLength, exactMatchOnly, numSequences, i, genomeMatches) ==
    IF i >= numSequences THEN genomeMatches
    ELSE
        LET sequence == extract(query, i * fragmentMatchLength,
                                fragmentMatchLength, ERROR).fragment
        IN  IF sequence = ERROR THEN genomeMatches
            ELSE
                LET found == findGenomesWithThisDNA(lib, t, k, sequence,
                                 fragmentMatchLength, exactMatchOnly, EmptyBag).matches
                    hits(n) == BagCardinality(
                                   [d \in {e \in DOMAIN found : e.genomeName = n}
                                       |-> found[d]])
                    names == DOMAIN genomeMatches
                                \cup {d.genomeName : d \in DOMAIN found}
                    counted == [n \in names |->
                                   (IF n \in DOMAIN genomeMatches
                                    THEN genomeMatches[n] ELSE 0) + hits(n)]
                IN  sequenceLoop(lib, t, k, query, fragmentMatchLength,
                                 exactMatchOnly, numSequences, i + 1, counted)

\* the loop over the library from index i on: push a GenomeMatch for every
\* genome whose percentage exceeds the threshold
RECURSIVE libraryLoop(_, _, _, _, _, _)
libraryLoop(lib, genomeMatches, numSequences, matchPercentThreshold, i, res) ==
    IF i > Len(lib) THEN res
    ELSE
        LET cur == lib[i]
            count == IF name(cur) \in DOMAIN genomeMatches
                     THEN genomeMatches[name(cur)] ELSE 0
            p == [num |-> count * 100, den |-> numSequences]
        IN  libraryLoop(lib, genomeMatches, numSequences, matchPercentThreshold, i + 1,
                IF p.num > matchPercentThreshold * p.den
                THEN Append(res, [genomeName |-> name(cur), percentMatch |-> p])
                ELSE res)

\* GenomeMatcherImpl::findRelatedGenomes: the returned bool and the caller's
\* vector afterwards
findRelatedGenomes(lib, t, k, query, fragmentMatchLength, exactMatchOnly, matchPercentThreshold, resultsIn) ==
    IF fragmentMatchLength < k
    THEN [ret |-> FALSE, results |-> resultsIn]
    ELSE
        LET numSequences == length(query) \div fragmentMatchLength
        IN  IF numSequences = 0
            THEN [ret |-> FALSE, results |-> << >>]
            ELSE
                LET genomeMatches == sequenceLoop(lib, t, k, query,
                                         fragmentMatchLength, exactMatchOnly,
                                         numSequences, 0, << >>)
                    res == libraryLoop(lib, genomeMatches, numSequences,
                                       matchPercentThreshold, 1, << >>)
                IN  IF Len(res) = 0
                    THEN [ret |-> FALSE, results |-> res]
                    ELSE [ret |-> TRUE, results |-> SortSeq(res, genomeMatchCompare)]

----------------------------------------------------------------------------
(* The matcher and its callers.  The queries are const member functions:   *)
(* what one returns depends on the library, its arguments and the vector   *)
(* it is handed, and it leaves the matcher as it was.  A behaviour adds    *)
(* genomes and then observes one query.                                    *)

Init ==
    /\ m_minSearchLength \in 1..MaxK
    /\ m_genomeLibrary = << >>
    /\ m_sequencedDNA = Trie
    /\ matches = EmptyBag
    /\ results = << >>
    /\ match = << >>
    /\ call = NoCall
    /\ ret = FALSE
    /\ m_root = Trie
    /\ inserted = EmptyBag
    /\ genome = GenomeImpl(<<"X">>, <<"A">>)
    /\ constructed = [nm |-> <<"X">>, sequence |-> <<"A">>]
    /\ fragment = ERROR

Building == call.op \in {"none", "addGenome"}

\* GenomeMatcher::addGenome(Genome(nm, sequence))
AddGenome ==
    /\ Building
    /\ Len(m_genomeLibrary) < MaxGenomes
    /\ \E nm \in Names, sequence \in Strings(Bases, 1, MaxSeqLen) :
        /\ \E r \in {addGenome(m_genomeLibrary, m_sequencedDNA, m_minSearchLength,
                              GenomeImpl(nm, sequence))} :
               /\ m_genomeLibrary' = r.library
               /\ m_sequencedDNA' = r.trie
        /\ call' = [op |-> "addGenome"]
        /\ UNCHANGED <<m_minSearchLength, matches, results, match, ret>>
        /\ UNCHANGED <<trieVars, genomeVars>>

\* GenomeMatcher::findGenomesWithThisDNA(frag, minimumLength, exactMatchOnly, v)
\* on a vector v that holds before
FindGenomesWithThisDNA ==
    /\ Building
    /\ \E frag \in Strings(Bases, 1, MaxFragLen), minimumLength \in 1..MaxFragLen,
          exactMatchOnly \in BOOLEAN, before \in StaleMatches :
        /\ \E r \in {findGenomesWithThisDNA(m_genomeLibrary, m_sequencedDNA,
                        m_minSearchLength, frag, minimumLength, exactMatchOnly,
                        before)} :
               /\ ret' = r.ret
               /\ matches' = r.matches
               /\ match' = r.match
        /\ call' = [op |-> "findGenomesWithThisDNA", fragment |-> frag,
                    minimumLength |-> minimumLength,
                    exactMatchOnly |-> exactMatchOnly]
        /\ UNCHANGED <<m_minSearchLength, m_genomeLibrary, m_sequencedDNA, results>>
        /\ UNCHANGED <<trieVars, genomeVars>>

\* GenomeMatcher::findRelatedGenomes(Genome(nm, sequence), fragmentMatchLength,
\* exactMatchOnly, matchPercentThreshold, v) on a vector v that holds before
FindRelatedGenomes ==
    /\ Building
    /\ \E sequence \in Strings(Bases, 1, MaxQueryLen),
       fragmentMatchLength \in 1..(MaxQueryLen + 1),
       exactMatchOnly \in BOOLEAN, matchPercentThreshold \in Thresholds,
       before \in StaleResults :
        /\ \E r \in {findRelatedGenomes(m_genomeLibrary, m_sequencedDNA,
                        m_minSearchLength, GenomeImpl(<<"X">>, sequence),
                        fragmentMatchLength, exactMatchOnly,
                        matchPercentThreshold, before)} :
               /\ ret' = r.ret
               /\ results' = r.results
        /\ call' = [op |-> "findRelatedGenomes", query |-> sequence,
                    fragmentMatchLength |-> fragmentMatchLength,
                    exactMatchOnly |-> exactMatchOnly,
                    matchPercentThreshold |-> matchPercentThreshold]
        /\ UNCHANGED <<m_minSearchLength, m_genomeLibrary, m_sequencedDNA,
                       matches, match>>
        /\ UNCHANGED <<trieVars, genomeVars>>

Next == AddGenome \/ FindGenomesWithThisDNA \/ FindRelatedGenomes

Spec == Init /\ [][Next]_vars

----------------------------------------------------------------------------
(* The trie on its own: a Trie<int> and its callers.                       *)

InitTrie ==
    /\ m_minSearchLength = 1
    /\ m_genomeLibrary = << >>
    /\ m_sequencedDNA = Trie
    /\ matches = EmptyBag
    /\ results = << >>
    /\ match = << >>
    /\ call = NoCall
    /\ ret = << >>
    /\ m_root = Trie
    /\ inserted = EmptyBag
    /\ genome = GenomeImpl(<<"X">>, <<"A">>)
    /\ constructed = [nm |-> <<"X">>, sequence |-> <<"A">>]
    /\ fragment = ERROR

\* find is a const member function: a behaviour fills the trie and then
\* observes one find
Filling == call.op # "find"

\* the values a caller stores: the n-th insert under a key stores n
Values == 1..MaxInserts
NextValue(key) == Cardinality({x \in BagToSet(inserted) : x[1] = key}) + 1

\* Trie::insert(key, value)
TrieInsert ==
    /\ Filling
    /\ BagCardinality(inserted) < MaxInserts
    /\ \E key \in Strings(Bases, 0, MaxKeyLen) :
        /\ m_root' = insert(m_root, key, NextValue(key))
        /\ inserted' = inserted (+) SetToBag({<<key, NextValue(key)>>})
        /\ call' = [op |-> "insert", key |-> key, value |-> NextValue(key)]
        /\ ret' = << >>
        /\ UNCHANGED <<matcherVars, genomeVars>>

\* Trie::find(key, exactMatchOnly)
TrieFind ==
    /\ Filling
    /\ \E key \in Strings(Bases, 0, MaxKeyLen), exactMatchOnly \in BOOLEAN :
        /\ ret' = find(m_root, key, exactMatchOnly)
        /\ call' = [op |-> "find", key |-> key, exactMatchOnly |-> exactMatchOnly]
        /\ UNCHANGED <<m_root, inserted, matcherVars, genomeVars>>

\* Trie::reset()
TrieReset ==
    /\ Filling
    /\ inserted # EmptyBag
    /\ m_root' = reset(m_root)
    /\ inserted' = EmptyBag
    /\ call' = [op |-> "reset"]
    /\ ret' = << >>
    /\ UNCHANGED <<matcherVars, genomeVars>>

NextTrie == TrieInsert \/ TrieFind \/ TrieReset

SpecTrie == InitTrie /\ [][NextTrie]_vars

----------------------------------------------------------------------------
(* The Genome on its own: a Genome object and its callers.                 *)

InitGenome ==
    /\ m_minSearchLength \in 1..MaxK
    /\ m_genomeLibrary = << >>
    /\ m_sequencedDNA = Trie
    /\ matches = EmptyBag
    /\ results = << >>
    /\ match = << >>
    /\ call = NoCall
    /\ ret = FALSE
    /\ m_root = Trie
    /\ inserted = EmptyBag
    /\ \E nm \in Names, sequence \in Strings(GenomeChars, 1, MaxGenomeLen) :
        /\ genome = GenomeImpl(nm, sequence)
        /\ constructed = [nm |-> nm, sequence |-> sequence]
    /\ fragment = ERROR

\* Genome::extract(position, len, fragment)
Extract ==
    \E position \in -1..(MaxGenomeLen + 1), len \in -1..(MaxGenomeLen + 1) :
        /\ \E r \in {extract(genome, position, len, fragment)} :
               /\ ret' = r.ok
               /\ fragment' = r.fragment
        /\ call' = [op |-> "extract", position |-> position, length |-> len,
                    before |-> fragment]
        /\ UNCHANGED <<genome, constructed, matcherVars, trieVars>>

\* GenomeMatcher::addGenome(genome) on a matcher that holds no genome yet
AddConstructed ==
    /\ m_genomeLibrary = << >>
    /\ \E r \in {addGenome(m_genomeLibrary, m_sequencedDNA, m_minSearchLength,
                           genome)} :
           /\ m_genomeLibrary' = r.library
           /\ m_sequencedDNA' = r.trie
    /\ call' = [op |-> "addGenome"]
    /\ ret' = FALSE
    /\ UNCHANGED <<m_minSearchLength, matches, results, match>>
    /\ UNCHANGED <<trieVars, genomeVars>>

NextGenome == Extract \/ AddConstructed

SpecGenome == InitGenome /\ [][NextGenome]_vars

----------------------------------------------------------------------------
(* What the matcher's results are measured against.                        *)

Range(f) == {f[x] : x \in DOMAIN f}
BagSet(b) == DOMAIN b
Max(S) == CHOOSE x \in S : \A y \in S : y <= x

\* the offsets below n at which the genome's bases from pos on differ from
\* the first n bases of frag (pos + n must not pass the genome's end)
Mismatches(g, pos, frag, n) ==
    {i \in 0..(n - 1) : g.m_sequence[pos + i + 1] # frag[i + 1]}

\* the first n bases of frag match the genome at pos under the policy: the
\* run lies inside the genome, differs in no position (exact) or in at most
\* one (approximate), and never in position 0
Admissible(g, pos, frag, n, exactMatchOnly) ==
    /\ 0 <= pos
    /\ n <= Len(frag)
    /\ pos + n <= length(g)
    /\ 0 \notin Mismatches(g, pos, frag, n)
    /\ Cardinality(Mismatches(g, pos, frag, n)) <= (IF exactMatchOnly THEN 0 ELSE 1)

\* the genomes of the library that bear a name
Named(nm) == {id \in 1..Len(m_genomeLibrary) : name(m_genomeLibrary[id]) = nm}

QueriedDNA == call.op = "findGenomesWithThisDNA"
QueriedRelated == call.op = "findRelatedGenomes"

\* C1: exact-match soundness.  Every DNAMatch (name, len, pos) returned by
\* findGenomesWithThisDNA(fragment, L, exactOnly = true) has len >= L and
\* names a genome of which sequence[pos .. pos+len) exists and equals
\* fragment[0 .. len), also when the seed lies close to the genome's end.
ExactMatchSoundness ==
    (QueriedDNA /\ call.exactMatchOnly /\ ret) =>
        \A d \in BagSet(matches) :
            /\ d.length >= call.minimumLength
            /\ \E id \in Named(d.genomeName) :
                   Admissible(m_genomeLibrary[id], d.position, call.fragment,
                              d.length, TRUE)

\* C2: approximate-match soundness.  Every DNAMatch (name, len, pos) returned
\* by findGenomesWithThisDNA(fragment, L, exactOnly = false) denotes an
\* existing substring sequence[pos .. pos+len) of the named genome that
\* differs from fragment[0 .. len) in at most one position, never index 0.
ApproximateMatchSoundness ==
    (QueriedDNA /\ ~call.exactMatchOnly /\ ret) =>
        \A d \in BagSet(matches) :
            \E id \in Named(d.genomeName) :
                Admissible(m_genomeLibrary[id], d.position, call.fragment,
                           d.length, FALSE)

\* the seeds of genome id among the trie's answer for the fragment's first k
\* bases, as indices into that answer
SeedsOf(id, locs) == {j \in 1..Len(locs) : locs[j][1] = id}

\* the longest admissible match length at a seed, 0 when there is none of
\* at least the minimum length
LongestAdmissible(g, pos, frag, minimumLength, exactMatchOnly) ==
    LET ns == {n \in minimumLength..Len(frag) :
                   Admissible(g, pos, frag, n, exactMatchOnly)}
    IN  IF ns = {} THEN 0 ELSE Max(ns)

\* C3: per-genome maximality.  findGenomesWithThisDNA returns at most one
\* DNAMatch per genome id; its length is the maximum over the genome's seeds
\* in the trie's answer of the longest admissible match length (at least L),
\* and its position is that of the first seed in the answer's order that
\* reaches the maximum.
PerGenomeMaximality ==
    (QueriedDNA /\ call.minimumLength >= m_minSearchLength
                /\ Len(call.fragment) >= call.minimumLength) =>
        LET locs == find(m_sequencedDNA, substr(call.fragment, 0, m_minSearchLength),
                         call.exactMatchOnly)
            best(j) == LongestAdmissible(m_genomeLibrary[locs[j][1]], locs[j][2],
                           call.fragment, call.minimumLength, call.exactMatchOnly)
        IN  /\ BagCardinality(matches) = Cardinality(DOMAIN match)
            /\ \A id \in DOMAIN match : BagIn(match[id], matches)
            /\ \A id \in 1..Len(m_genomeLibrary) :
                LET top == Max({0} \cup {best(j) : j \in SeedsOf(id, locs)})
                IN  IF top = 0 THEN id \notin DOMAIN match
                    ELSE /\ id \in DOMAIN match
                         /\ match[id].genomeName = name(m_genomeLibrary[id])
                         /\ match[id].length = top
                         /\ \E j \in SeedsOf(id, locs) :
                               /\ best(j) = top
                               /\ match[id].position = locs[j][2]
                               /\ \A h \in SeedsOf(id, locs) : best(h) = top => j <= h

\* C4: a precondition violation produces false and an empty output,
\* whatever the caller's vector held before: findGenomesWithThisDNA with
\* |fragment| < L or L < k, findRelatedGenomes with m < k or m > |query|.
PreconditionViolationEmpties ==
    /\ (QueriedDNA /\ (Len(call.fragment) < call.minimumLength
                       \/ call.minimumLength < m_minSearchLength)) =>
           (ret = FALSE /\ matches = EmptyBag)
    /\ (QueriedRelated /\ (call.fragmentMatchLength < m_minSearchLength
                           \/ call.fragmentMatchLength > Len(call.query))) =>
           (ret = FALSE /\ results = << >>)

\* C5: relatedness bounds.  Every GenomeMatch returned by findRelatedGenomes
\* has a percentMatch strictly above the threshold and at most 100, for
\* every library, also one with several genomes of the same name.
RelatednessBounds ==
    (QueriedRelated /\ ret) =>
        \A i \in 1..Len(results) :
            /\ results[i].percentMatch.num
                   > call.matchPercentThreshold * results[i].percentMatch.den
            /\ results[i].percentMatch.num <= 100 * results[i].percentMatch.den

\* a is before b in the required order: higher percentMatch, or the same
\* percentMatch and the lesser name
StrictlyBefore(a, b) ==
    \/ a.percentMatch.num * b.percentMatch.den > b.percentMatch.num * a.percentMatch.den
    \/ /\ a.percentMatch.num * b.percentMatch.den = b.percentMatch.num * a.percentMatch.den
       /\ StringLess(a.genomeName, b.genomeName)

\* C6: relatedness ordering.  When findRelatedGenomes returns true its list
\* is sorted by percentMatch descending, ties by genomeName ascending, and
\* strictly: no two entries have the same (genomeName, percentMatch).
RelatednessOrdering ==
    (QueriedRelated /\ ret) =>
        \A i, j \in 1..Len(results) : i < j => StrictlyBefore(results[i], results[j])

\* the k bases of a sequence from offset i on
Kmer(sequence, i, k) == [j \in 1..k |-> sequence[i + j]]

\* the (genome number, offset) pairs the index must hold
ExpectedSeeds ==
    UNION {{<<id, i>> : i \in 0..(length(m_genomeLibrary[id]) - m_minSearchLength)}
               : id \in 1..Len(m_genomeLibrary)}

\* the values the index holds, each with its node and its place in the
\* node's vector
StoredSeeds ==
    UNION {{<<p, j>> : j \in 1..Len(m_sequencedDNA[p])} : p \in DOMAIN m_sequencedDNA}

Count(seq, v) == Cardinality({i \in 1..Len(seq) : seq[i] = v})

\* C7: seed completeness and exactness of the index.  After any sequence of
\* addGenome calls, for every library genome g and offset i in 0 .. |g| - k
\* the exact find of g.sequence[i .. i+k) contains the seed (g, i), once; the
\* trie holds the sum over the genomes of max(0, |g| - k + 1) seeds, each
\* under the k bases it stands for, and no others; a genome shorter than k
\* has no seed and is in no result of findGenomesWithThisDNA.
SeedCompleteness ==
    /\ \A s \in ExpectedSeeds :
           Count(find(m_sequencedDNA,
                      Kmer(m_genomeLibrary[s[1]].m_sequence, s[2], m_minSearchLength),
                      TRUE), s) = 1
    /\ Cardinality(StoredSeeds) = Cardinality(ExpectedSeeds)
    /\ \A x \in StoredSeeds :
           LET s == m_sequencedDNA[x[1]][x[2]]
           IN  /\ s \in ExpectedSeeds
               /\ x[1] = Kmer(m_genomeLibrary[s[1]].m_sequence, s[2], m_minSearchLength)
    /\ \A id \in 1..Len(m_genomeLibrary) :
           length(m_genomeLibrary[id]) < m_minSearchLength =>
               /\ \A s \in ExpectedSeeds : s[1] # id
               /\ QueriedDNA => id \notin DOMAIN match

\* a query has answered on a library whose first genome is shorter than k
\* and whose second genome has several seeds
SeedCompletenessWitness ==
    /\ QueriedDNA
    /\ ret
    /\ Len(m_genomeLibrary) = 2
    /\ length(m_genomeLibrary[1]) < m_minSearchLength
    /\ length(m_genomeLibrary[2]) > m_minSearchLength
    /\ name(m_genomeLibrary[1]) = name(m_genomeLibrary[2])

----------------------------------------------------------------------------
(* The trie on its own.                                                    *)

\* the number of positions in which two keys of the same length differ
Distance(a, b) == Cardinality({i \in 1..Len(a) : a[i] # b[i]})

\* the stored keys an approximate find of key must answer with: the same
\* length, the same first character, at most one other character different
Near(key) ==
    {K \in Strings(Bases, Len(key), Len(key)) :
        Len(key) = 0 \/ (K[1] = key[1] /\ Distance(K, key) <= 1)}

\* how often value v was inserted under the keys of a set
InsertedUnder(keys, v) ==
    Cardinality(UNION {{<<K, c>> : c \in 1..CopiesIn(<<K, v>>, inserted)} : K \in keys})

\* C8: trie find semantics.  After any sequence of insert calls, find(key,
\* true) returns exactly the multiset of values inserted under key, and
\* find(key, false) exactly the multiset of values inserted under the stored
\* keys of the same length and first character that differ from key in at
\* most one position, each value once; find of the empty key returns only
\* the values inserted under the empty key.
TrieFindSemantics ==
    call.op = "find" =>
        /\ \A i \in 1..Len(ret) : ret[i] \in Values
        /\ \A v \in Values :
               Count(ret, v) =
                   InsertedUnder(IF call.exactMatchOnly THEN {call.key}
                                 ELSE Near(call.key), v)

\* an approximate find of a key of three characters has answered with a
\* value stored one mismatch away while a key two mismatches away is stored
TrieFindWitness ==
    /\ call.op = "find"
    /\ ~call.exactMatchOnly
    /\ Len(call.key) = 3
    /\ ret # << >>
    /\ \E x \in BagToSet(inserted) :
           /\ Len(x[1]) = 3
           /\ x[1][1] = call.key[1]
           /\ Distance(x[1], call.key) = 1
    /\ \E x \in BagToSet(inserted) :
           /\ Len(x[1]) = 3
           /\ x[1][1] = call.key[1]
           /\ Distance(x[1], call.key) = 2

----------------------------------------------------------------------------
(* The Genome on its own.                                                  *)

Extracted == call.op = "extract"
UpperBases == {"A", "C", "G", "T", "N"}

\* sequence[position .. position + len)
Slice(sequence, position, len) == [j \in 1..len |-> sequence[position + j]]

\* C9 as stated: extract(position, length) succeeds if and only if
\* position >= 0 and position + length <= sequence.length, so also for a
\* zero-length extraction at position = sequence.length.
ExtractIffInRange ==
    (Extracted /\ call.length >= 0) =>
        (ret <=> (call.position >= 0
                  /\ call.position + call.length <= length(genome)))

\* C9, amended: for length >= 0, extract(position, length) succeeds and
\* yields sequence[position .. position + length) if and only if
\* 0 <= position < sequence.length and position + length <= sequence.length;
\* in every other case it reports failure and leaves the caller's fragment
\* as it was.
ExtractIffInsideGenome ==
    (Extracted /\ call.length >= 0) =>
        /\ ret <=> (/\ 0 <= call.position
                    /\ call.position < length(genome)
                    /\ call.position + call.length <= length(genome))
        /\ ret => fragment = Slice(genome.m_sequence, call.position, call.length)
        /\ ~ret => fragment = call.before

\* a zero-length extract at position = sequence.length has failed and the
\* caller's fragment still holds an earlier extraction
ExtractWitness ==
    /\ Extracted
    /\ ~ret
    /\ call.length = 0
    /\ call.position = length(genome)
    /\ fragment # ERROR

\* C10 as stated: a Genome constructed from (name, sequence) stores the
\* sequence in uppercase, so every successful extract returns only
\* uppercase bases.
ExtractReturnsUppercase ==
    (Extracted /\ ret) => \A i \in 1..Len(fragment) : fragment[i] \in UpperBases

Upper(sequence) == [i \in 1..Len(sequence) |-> toupper(sequence[i])]

\* C10, amended: a Genome constructed from (name, sequence) stores the
\* sequence as given, in the case given: every successful extract returns
\* the characters of the constructor's argument unchanged, and a genome
\* added to a matcher is indexed under its bases as given, not under their
\* uppercase.
SequenceStoredAsGiven ==
    /\ genome.m_sequence = constructed.sequence
    /\ (Extracted /\ ret /\ call.length >= 0) =>
           fragment = Slice(constructed.sequence, call.position, call.length)
    /\ m_genomeLibrary # << >> =>
           \A i \in 0..(Len(constructed.sequence) - m_minSearchLength) :
               LET K == Kmer(constructed.sequence, i, m_minSearchLength)
               IN  /\ Count(find(m_sequencedDNA, K, TRUE), <<1, i>>) = 1
                   /\ Upper(K) # K =>
                          Count(find(m_sequencedDNA, Upper(K), TRUE), <<1, i>>) = 0

\* a genome with a lowercase base has been added to a matcher and an extract
\* has returned a lowercase base
SequenceStoredAsGivenWitness ==
    /\ Extracted
    /\ ret
    /\ \E i \in 1..Len(fragment) : fragment[i] \notin UpperBases
    /\ m_genomeLibrary # << >>
    /\ DOMAIN m_sequencedDNA # {<< >>}

----------------------------------------------------------------------------
(* The seed's mismatch and the extension loop.                             *)

\* the queries that pass both tests on minimumLength
ValidDNAQuery ==
    /\ QueriedDNA
    /\ call.minimumLength >= m_minSearchLength
    /\ Len(call.fragment) >= call.minimumLength

\* the seed at pos of g differs from the fragment's first k bases in one place
SeedMismatch(g, pos) ==
    Cardinality(Mismatches(g, pos, call.fragment, m_minSearchLength)) = 1

\* the part of a reported run of len bases at pos that lies inside g
Inside(g, pos, len) == Min(len, length(g) - pos)

\* C11 as stated: the extension loop has a mismatch allowance of its own.
\* With exactOnly = false, whenever a seed of the trie's answer differs from
\* the fragment in one of its first k bases and the genome's run of n > k
\* bases at the seed differs from fragment[0 .. n) in one further position
\* (n >= L, the run inside the genome), the genome's reported match is at
\* least n long: a match of two differing positions is reported.
SeedMismatchKeepsBudget ==
    (ValidDNAQuery /\ ~call.exactMatchOnly) =>
        LET locs == find(m_sequencedDNA, substr(call.fragment, 0, m_minSearchLength),
                         FALSE)
        IN  \A j \in 1..Len(locs) :
                LET id == locs[j][1]
                    g == m_genomeLibrary[id]
                    pos == locs[j][2]
                IN  \A n \in (m_minSearchLength + 1)..Len(call.fragment) :
                        (/\ n >= call.minimumLength
                         /\ pos + n <= length(g)
                         /\ SeedMismatch(g, pos)
                         /\ Cardinality(Mismatches(g, pos, call.fragment, n)) = 2)
                        => (id \in DOMAIN match /\ match[id].length >= n)

\* C11 as the code has it: the first pass of the extension loop compares the
\* whole seed and uses the allowance up on the seed's mismatch.  With
\* exactOnly = false, every reported match differs from the fragment in at
\* most one position over the part of its run that lies inside the genome;
\* after a seed with a mismatch every further base of that part equals the
\* fragment's.
SeedMismatchSpendsBudget ==
    (QueriedDNA /\ ~call.exactMatchOnly) =>
        \A id \in DOMAIN match :
            LET g == m_genomeLibrary[id]
                pos == match[id].position
                n == Inside(g, pos, match[id].length)
            IN  /\ n >= m_minSearchLength
                /\ Cardinality(Mismatches(g, pos, call.fragment, n)) <= 1
                /\ SeedMismatch(g, pos) =>
                       \A i \in m_minSearchLength..(n - 1) :
                           g.m_sequence[pos + i + 1] = call.fragment[i + 1]

\* a seed with a mismatch whose next base differs from the fragment's as
\* well, reported at the seed's length
SeedMismatchWitness ==
    /\ QueriedDNA /\ ~call.exactMatchOnly /\ ret
    /\ \E id \in DOMAIN match :
           LET g == m_genomeLibrary[id]
               pos == match[id].position
               k == m_minSearchLength
           IN  /\ SeedMismatch(g, pos)
               /\ k + 1 <= Len(call.fragment)
               /\ pos + k + 1 <= length(g)
               /\ g.m_sequence[pos + k + 1] # call.fragment[k + 1]
               /\ match[id].length = k
               /\ BagIn(match[id], matches)

----------------------------------------------------------------------------
(* A genome's match and the rest of the library.                           *)

\* a matcher of the same k whose library holds g alone
Alone(g) == addGenome(<< >>, Trie, m_minSearchLength, g)

\* what the query of the state returns from the matcher that holds g alone
AloneQuery(g) ==
    findGenomesWithThisDNA(Alone(g).library, Alone(g).trie, m_minSearchLength,
                           call.fragment, call.minimumLength,
                           call.exactMatchOnly, EmptyBag)

\* C12: a genome's result does not depend on the rest of the library.  For
\* any sequence of addGenome calls and any valid query (fragment, L,
\* exactOnly), the DNAMatch that findGenomesWithThisDNA reports for a library
\* genome g (its presence, length and position) is the one reported by a
\* matcher of the same k whose library holds g alone; the returned vector
\* holds these matches and no other.
PerGenomeIndependence ==
    ValidDNAQuery =>
        /\ \A id \in 1..Len(m_genomeLibrary) :
               LET alone == AloneQuery(m_genomeLibrary[id])
               IN  /\ (id \in DOMAIN match) <=> alone.ret
                   /\ id \in DOMAIN match =>
                          /\ match[id] = alone.match[1]
                          /\ BagIn(match[id], matches)
        /\ DOMAIN match \subseteq 1..Len(m_genomeLibrary)
        /\ BagCardinality(matches) = Cardinality(DOMAIN match)
        /\ ret <=> (DOMAIN match # {})

\* two genomes whose seeds come interleaved from the trie, each reported
\* with a match of its own, the two of different lengths
PerGenomeIndependenceWitness ==
    /\ ValidDNAQuery /\ ret
    /\ Len(m_genomeLibrary) = 2
    /\ DOMAIN match = {1, 2}
    /\ match[1].length # match[2].length
    /\ LET locs == find(m_sequencedDNA,
                        substr(call.fragment, 0, m_minSearchLength),
                        call.exactMatchOnly)
       IN  \E h, i, j \in 1..Len(locs) :
               /\ h < i /\ i < j
               /\ locs[h][1] = locs[j][1]
               /\ locs[i][1] # locs[h][1]

====
